---- MODULE Spec2Model ----
(***************************************************************************)
(* Model of the user registration service: the users collection with its   *)
(* unique index on email (user_model.py), the register / login / home      *)
(* request handlers and the confirmation-token helpers (user.py).          *)
(*                                                                         *)
(* Python values are modelled as follows.  An email or a form password is  *)
(* a string.  The value of UserModel.password is a sequence of text atoms: *)
(* a bcrypt hash is <<"$2b$", salt, plaintext>> (the third atom stands for *)
(* the digest of that plaintext under that salt; only hashpw reads it), and*)
(* a plaintext kept as it is would be the one-atom sequence <<plaintext>>. *)
(***************************************************************************)
EXTENDS Integers, Sequences, FiniteSets, TLC

VARIABLES
    py3,        \* the interpreter the service runs on: TRUE for Python 3, FALSE for Python 2
    store,      \* the documents of the users collection, in insertion order
    indexes,    \* the fields of the collection that carry a unique index
    session,    \* per client: the user id Flask-Login keeps in the session, or Anonymous
    req,        \* per client: the request in flight or just answered
    registered, \* the <<email, plaintext>> pairs whose insert was accepted by the store
    now,        \* wall clock, in seconds
    secret_key, \* app.config['SECRET_KEY']
    issued,     \* the confirmation tokens handed out so far
    conf        \* the last confirm_token call and what it returned

vars == <<py3, store, indexes, session, req, registered, now, secret_key, issued, conf>>

webVars == <<py3, store, indexes, session, req, registered>>
tokenVars == <<now, secret_key, issued, conf>>

----------------------------------------------------------------------------
(* Bounds of the model *)

NumSalts == 1
MaxTicks == 3
MaxIssued == 2

(* Program constants *)

EXISTING_EMAIL_CODE_ERR == 11000
MinEmailLen == 6
MaxEmailLen == 40
MinPasswordLen == 6
MaxPasswordLen == 25
DefaultExpiration == 3600

----------------------------------------------------------------------------
(* Inputs *)

Clients == {"c1", "c2"}

Anonymous == "Anonymous"
None == "None"
PyFalse == "False"

\* What a client may type into the email field, with the facts the
\* validators look at.
EmailFacts ==
    ("alice@example.com" :> [len |-> 17, wellformed |-> TRUE]) @@
    ("bob@example.com"   :> [len |-> 15, wellformed |-> TRUE]) @@
    ("nobody"            :> [len |-> 6,  wellformed |-> FALSE])

PasswordLen ==
    ("secret1"  :> 7) @@
    ("hunter22" :> 8) @@
    ("wrong"    :> 5)

FormEmails == DOMAIN EmailFacts
FormPasswords == DOMAIN PasswordLen

SaltPool == <<"s1", "s2", "s3">>
Salts == {SaltPool[i] : i \in 1..NumSalts}

\* How a store call ends: normally, with the write not acknowledged, or with
\* an OperationFailure of the server that is not a duplicate key.
FindOutcomes == {"ok", "operation_failure"}
InsertOutcomes == {"ok", "unacknowledged", "operation_failure"}

----------------------------------------------------------------------------
(* user_model.py: the users collection *)

\* MongoReturn() as the code uses it.  code is <<>> for None and <<n>> for the
\* number n; documents is None until a lookup sets it.
MongoReturn ==
    [success |-> FALSE, count |-> 0, code |-> <<>>, documents |-> None,
     message |-> None, raised |-> None]

\* The number of stored documents whose email is e.
CountEmail(coll, e) == Cardinality({i \in 1..Len(coll) : coll[i].email = e})

HasDuplicates(coll) ==
    \E i, j \in 1..Len(coll) : i # j /\ coll[i].email = coll[j].email

\* UserModel.__init__ (db_ctx, a handle, is left out: _to_dict pops it).
UserModel(email, password, is_authenticated, kwargs) ==
    [email |-> email, password |-> password,
     is_authenticated |-> is_authenticated,
     is_anonymous |-> FALSE, is_active |-> TRUE, details |-> kwargs]

get_id(user) == user.email

\* UserModel._to_dict: the attributes, with every detail copied over them and
\* the details entry dropped.
to_dict(user) ==
    LET attributes == [k \in (DOMAIN user) \ {"details"} |-> user[k]]
    IN  user.details @@ attributes

\* Mutant: the flag starts out set, so that submit never ensures the index.
created_index_set == TRUE

\* The class attribute: nothing ever assigns it.
created_index == FALSE

\* pymongo create_index('email', unique=True): idempotent; the build of a
\* unique index over documents that already collide is refused.
create_index(coll, idx) ==
    IF HasDuplicates(coll)
    THEN [raised |-> "DuplicateKeyError", indexes |-> idx]
    ELSE [raised |-> None, indexes |-> idx \cup {"email"}]

\* The first half of UserModel.submit: the index is ensured unless the flag
\* says it was.
submit_ensure_index(coll, idx) ==
    IF ~created_index
    THEN create_index(coll, idx)
    ELSE [raised |-> None, indexes |-> idx]

\* pymongo insert_one under the collection's indexes.  An unacknowledged
\* write reports nothing, whether or not the server kept the document.
insert_one(coll, idx, doc, outcome) ==
    LET collides == "email" \in idx /\ CountEmail(coll, doc.email) > 0
    IN  CASE outcome = "operation_failure" ->
                [coll |-> coll, error |-> <<13>>, acknowledged |-> FALSE,
                 inserted_id |-> FALSE]
          [] collides /\ outcome = "ok" ->
                [coll |-> coll, error |-> <<EXISTING_EMAIL_CODE_ERR>>,
                 acknowledged |-> FALSE, inserted_id |-> FALSE]
          [] collides /\ outcome = "unacknowledged" ->
                [coll |-> coll, error |-> <<>>, acknowledged |-> FALSE,
                 inserted_id |-> TRUE]
          [] OTHER ->
                [coll |-> Append(coll, doc), error |-> <<>>,
                 acknowledged |-> (outcome = "ok"), inserted_id |-> TRUE]

\* Mutant: the except branch forgets to copy the error's code.
submit_insert_no_code(coll, idx, user, outcome) ==
    LET result == insert_one(coll, idx, to_dict(user), outcome)
        return_obj ==
            IF result.error # <<>>
            THEN [MongoReturn EXCEPT !.success = FALSE,
                                     !.message = "error.details"]
            ELSE IF result.acknowledged /\ result.inserted_id
            THEN [MongoReturn EXCEPT !.success = TRUE, !.count = 1,
                      !.message = "Document inserted successfully"]
            ELSE [MongoReturn EXCEPT !.success = FALSE,
                      !.message = "Failed to insert document"]
    IN  [coll |-> result.coll, return_obj |-> return_obj]

\* The second half of UserModel.submit: the insert and the return object
\* built from its result or from the PyMongoError it raised.
submit_insert(coll, idx, user, outcome) ==
    LET result == insert_one(coll, idx, to_dict(user), outcome)
        return_obj ==
            IF result.error # <<>>
            THEN [MongoReturn EXCEPT !.success = FALSE, !.code = result.error,
                                     !.message = "error.details"]
            ELSE IF result.acknowledged /\ result.inserted_id
            THEN [MongoReturn EXCEPT !.success = TRUE, !.count = 1,
                      !.message = "Document inserted successfully"]
            ELSE [MongoReturn EXCEPT !.success = FALSE,
                      !.message = "Failed to insert document"]
    IN  [coll |-> result.coll, return_obj |-> return_obj]

\* _cursor_helper: the documents of the cursor, a creation_timestamp made an
\* ISO string where there is one.
cursor_helper(cursor) ==
    [i \in 1..Len(cursor) |->
        IF "creation_timestamp" \in DOMAIN cursor[i]
        THEN [cursor[i] EXCEPT !["creation_timestamp"] = <<"isoformat", @>>]
        ELSE cursor[i]]

\* Mutant: the query is sent without its seed.
find_all(coll, email) == coll

\* pymongo find(dict(email=email), dict(_id=False)).
find(coll, email) == SelectSeq(coll, LAMBDA d : d.email = email)

\* UserModel.select_by_email.
select_by_email(coll, email, outcome) ==
    IF outcome = "operation_failure"
    THEN [MongoReturn EXCEPT !.success = FALSE, !.documents = "error.details",
                             !.code = <<13>>]
    ELSE LET result == cursor_helper(find(coll, email))
         IN  IF ~(Len(result) = 1 \/ Len(result) = 0)
             THEN [MongoReturn EXCEPT !.raised = "AssertionError"]
             ELSE IF Len(result) # 0
             THEN LET doc == result[1]
                      kwargs == [k \in (DOMAIN doc) \
                                     {"email", "password", "is_authenticated"}
                                 |-> doc[k]]
                      user == UserModel(doc.email, doc.password,
                                        doc.is_authenticated, kwargs)
                  IN  [MongoReturn EXCEPT
                          !.success = TRUE,
                          !.documents = [user EXCEPT !.is_authenticated = TRUE],
                          !.count = Len(result)]
             ELSE [MongoReturn EXCEPT !.success = TRUE, !.count = Len(result)]

----------------------------------------------------------------------------
(* user.py: forms, password hashing, confirmation tokens *)

SECURITY_PASSWORD_SALT == "test_salt"

\* Mutant: the password is kept as typed.
generate_password_hash_plain(password, salt) == <<password>>

\* flask_bcrypt generate_password_hash: bcrypt under a fresh random salt.
generate_password_hash(password, salt) == <<"$2b$", salt, password>>

\* bcrypt.hashpw(password, pw_hash): the hash of password under the salt that
\* pw_hash carries.
hashpw(password, pw_hash) == <<"$2b$", pw_hash[2], password>>

\* Mutant: any password is taken for the right one.
check_password_hash_any(pw_hash, password) == "True"

\* flask_bcrypt check_password_hash.  A value that is no bcrypt hash makes
\* hashpw raise ValueError (invalid salt).
check_password_hash(pw_hash, password) ==
    IF Len(pw_hash) = 3 /\ pw_hash[1] = "$2b$"
    THEN IF hashpw(password, pw_hash) = pw_hash THEN "True" ELSE "False"
    ELSE "ValueError"

\* str(value) of the bytes that generate_password_hash returns: the value
\* itself on Python 2, its repr b'...' on Python 3.
str_of_hash(python3, value) ==
    IF python3 THEN <<"b'">> \o value \o <<"'">> ELSE value

\* The wtforms validators of RegistrationForm, as the messages they leave.
registration_errors(email, password, confirm) ==
    (IF ~EmailFacts[email].wellformed
        THEN {"Invalid email address."} ELSE {})
    \cup (IF EmailFacts[email].len < MinEmailLen \/ EmailFacts[email].len > MaxEmailLen
        THEN {"Field must be between 6 and 40 characters long."} ELSE {})
    \cup (IF PasswordLen[password] < MinPasswordLen
             \/ PasswordLen[password] > MaxPasswordLen
        THEN {"Field must be between 6 and 25 characters long."} ELSE {})
    \cup (IF confirm # password THEN {"Passwords must match."} ELSE {})

\* The wtforms validators of LoginForm.
login_errors(email, password) ==
    (IF ~EmailFacts[email].wellformed
        THEN {"Invalid email address."} ELSE {})
    \cup (IF PasswordLen[password] = 0
        THEN {"This field is required."} ELSE {})

\* itsdangerous: the signature of payload and timestamp under the key
\* derived from secret and salt.
signature(secret, salt, payload, timestamp) ==
    <<secret, salt, payload, timestamp>>

\* URLSafeTimedSerializer(secret).dumps(payload, salt=salt) at time t.
dumps(secret, salt, payload, t) ==
    [payload |-> payload, timestamp |-> t,
     signature |-> signature(secret, salt, payload, t)]

\* Mutant: a token expires one comparison early, at exactly max_age.
loads_strict(secret, salt, token, max_age, t) ==
    IF token.signature #
           signature(secret, salt, token.payload, token.timestamp)
    THEN [raised |-> "BadSignature", value |-> None]
    ELSE IF t - token.timestamp >= max_age
    THEN [raised |-> "SignatureExpired", value |-> None]
    ELSE [raised |-> None, value |-> token.payload]

\* URLSafeTimedSerializer(secret).loads(token, salt=salt, max_age=max_age)
\* at time t.
loads(secret, salt, token, max_age, t) ==
    IF token.signature #
           signature(secret, salt, token.payload, token.timestamp)
    THEN [raised |-> "BadSignature", value |-> None]
    ELSE IF t - token.timestamp > max_age
    THEN [raised |-> "SignatureExpired", value |-> None]
    ELSE [raised |-> None, value |-> token.payload]

generate_confirmation_token(secret, email, t) ==
    dumps(secret, SECURITY_PASSWORD_SALT, email, t)

\* confirm_token: the bare except turns every failure of loads into False.
confirm_token(secret, token, expiration, t) ==
    LET r == loads(secret, SECURITY_PASSWORD_SALT, token, expiration, t)
    IN  IF r.raised # None THEN PyFalse ELSE r.value

\* A string that is no token at all.
Malformed == [payload |-> None, timestamp |-> 0, signature |-> <<>>]

\* What someone without the secret can make of a token they hold: another
\* payload or timestamp under the old signature, a signature under a key of
\* their own, or a token the server signed for another purpose (another salt).
Tampered(token) ==
    {[token EXCEPT !.payload = e] : e \in FormEmails \ {token.payload}}
    \cup {[token EXCEPT !.timestamp = now]}
    \cup {[token EXCEPT !.signature =
              signature("attacker_key", SECURITY_PASSWORD_SALT,
                        token.payload, token.timestamp)]}
    \cup {[token EXCEPT !.signature =
              signature(token.signature[1], "other_salt",
                        token.payload, token.timestamp)]}

\* No confirm_token call to report.
NoConfirm ==
    [called |-> FALSE, token |-> Malformed, secret |-> None,
     expiration |-> 0, at |-> 0, result |-> None]

Secrets == {"test_key", "rotated_key"}

TickSeconds == DefaultExpiration \div 2

----------------------------------------------------------------------------
(* user.py: the request handlers *)

Response(kind, target, flash, errors) ==
    [kind |-> kind, target |-> target, flash |-> flash, errors |-> errors]

NoResponse == Response(None, None, None, {})

\* A client with no request in flight.
Idle ==
    [pc |-> "idle", op |-> None, email |-> None, password |-> None,
     pw_hash |-> <<>>, valid |-> FALSE, found |-> 0, lookup |-> None,
     outcome |-> None, had |-> FALSE, inserted |-> FALSE,
     sub |-> MongoReturn, check |-> None, token |-> {},
     resp |-> NoResponse]

Init ==
    /\ py3 \in BOOLEAN
    /\ store = <<>>
    /\ indexes = {}
    /\ session = [c \in Clients |-> Anonymous]
    /\ req = [c \in Clients |-> Idle]
    /\ registered = {}
    /\ now = 0
    /\ secret_key = "test_key"
    /\ issued = {}
    /\ conf = NoConfirm

\* A response is handed to its client before the server takes its next step:
\* the record of an answered request is read at that point and then dropped.
NoneAnswered == \A d \in Clients : req[d].pc # "done"

\* register, up to the call of user.submit(): the form's validators, the
\* lookup of RegistrationForm.validate, the hashing of the password.
register_validate(c) ==
    /\ NoneAnswered
    /\ req[c].pc = "idle"
    /\ \E method \in {"GET", "POST"}, e \in FormEmails, p \in FormPasswords,
          cf \in FormPasswords, outcome \in FindOutcomes, salt \in Salts :
          LET errs == registration_errors(e, p, cf)
              result == select_by_email(store, e, outcome)
              base == [Idle EXCEPT !.op = "register", !.email = e,
                                   !.password = p]
              form(errors) ==
                  [base EXCEPT !.pc = "done",
                      !.resp = Response("render", "registration.html",
                                        None, errors)]
          IN  req' = [req EXCEPT ![c] =
                  IF method = "GET"
                  THEN [Idle EXCEPT !.pc = "done", !.op = "register",
                           !.resp = Response("render", "registration.html",
                                             None, {})]
                  ELSE IF errs # {} THEN form(errs)
                  ELSE IF result.raised # None
                  THEN [base EXCEPT !.pc = "done", !.lookup = outcome,
                           !.resp = Response("error", result.raised, None, {})]
                  ELSE IF ~result.success
                  THEN [form(IF result.code = <<EXISTING_EMAIL_CODE_ERR>>
                             THEN {"Email already registered"} ELSE {})
                           EXCEPT !.lookup = outcome]
                  ELSE [base EXCEPT !.pc = "create_index", !.valid = TRUE,
                           !.lookup = outcome, !.found = result.count,
                           !.pw_hash = str_of_hash(py3,
                                          generate_password_hash(p, salt))]]
    /\ UNCHANGED <<py3, store, indexes, session, registered, tokenVars>>

\* user.submit(), first half: the unique index on email.
register_ensure_index(c) ==
    /\ NoneAnswered
    /\ req[c].pc = "create_index"
    /\ LET r == submit_ensure_index(store, indexes)
       IN  /\ indexes' = r.indexes
           /\ req' = [req EXCEPT ![c] =
                  IF r.raised # None
                  THEN [@ EXCEPT !.pc = "done",
                           !.resp = Response("error", r.raised, None, {})]
                  ELSE [@ EXCEPT !.pc = "insert_one"]]
    /\ UNCHANGED <<py3, store, session, registered, tokenVars>>

\* user.submit(), second half, and the rest of register: the insert, whose
\* return object register drops, the token, the flash and the redirect.
register_insert(c) ==
    /\ NoneAnswered
    /\ req[c].pc = "insert_one"
    /\ \E outcome \in InsertOutcomes :
          LET user == UserModel(req[c].email, req[c].pw_hash, FALSE,
                                [confirmed |-> FALSE])
              r == submit_insert(store, indexes, user, outcome)
              token == generate_confirmation_token(secret_key, req[c].email, now)
          IN  /\ store' = r.coll
              /\ registered' =
                    IF r.coll # store
                    THEN registered \cup {<<req[c].email, req[c].password>>}
                    ELSE registered
              /\ req' = [req EXCEPT ![c] =
                    [@ EXCEPT !.pc = "done", !.pw_hash = <<>>,
                        !.outcome = outcome,
                        !.had = (CountEmail(store, req[c].email) > 0),
                        !.inserted = (r.coll # store),
                        !.sub = r.return_obj,
                        !.token = {token},
                        !.resp = Response("redirect", "main_bp.home",
                            "A confirmation email has been sent via email.",
                            {})]]
    /\ UNCHANGED <<py3, indexes, session, tokenVars>>

\* login.
login(c) ==
    /\ NoneAnswered
    /\ req[c].pc = "idle"
    /\ \E method \in {"GET", "POST"}, e \in FormEmails, p \in FormPasswords,
          outcome \in FindOutcomes :
          LET errs == login_errors(e, p)
              result == select_by_email(store, e, outcome)
              base == [Idle EXCEPT !.pc = "done", !.op = "login",
                                   !.email = e, !.password = p]
              looked == [base EXCEPT !.valid = TRUE, !.lookup = outcome,
                                     !.found = result.count]
              checked == check_password_hash(result.documents.password, p)
          IN  IF method = "GET"
              THEN /\ req' = [req EXCEPT ![c] = [Idle EXCEPT
                          !.pc = "done", !.op = "login",
                          !.resp = Response("render", "login.html", None, {})]]
                   /\ UNCHANGED session
              ELSE IF errs # {}
              THEN /\ req' = [req EXCEPT ![c] = [base EXCEPT
                          !.resp = Response("render", "login.html", None, {})]]
                   /\ UNCHANGED session
              ELSE IF result.raised # None
              THEN /\ req' = [req EXCEPT ![c] = [looked EXCEPT
                          !.resp = Response("error", result.raised, None, {})]]
                   /\ UNCHANGED session
              ELSE IF result.count # 0
              THEN IF checked = "True"
                   THEN /\ session' = [session EXCEPT
                                          ![c] = get_id(result.documents)]
                        /\ req' = [req EXCEPT ![c] = [looked EXCEPT
                               !.check = checked,
                               !.resp = Response("redirect", "main_bp.home",
                                                 "Welcome.", {})]]
                   ELSE IF checked = "False"
                   THEN /\ req' = [req EXCEPT ![c] = [looked EXCEPT
                               !.check = checked,
                               !.resp = Response("render", "login.html",
                                                 None, {})]]
                        /\ UNCHANGED session
                   ELSE /\ req' = [req EXCEPT ![c] = [looked EXCEPT
                               !.check = checked,
                               !.resp = Response("error", checked, None, {})]]
                        /\ UNCHANGED session
              ELSE /\ req' = [req EXCEPT ![c] = [looked EXCEPT
                          !.resp = Response("render", "login.html",
                                    "Invalid email and/or password.", {})]]
                   /\ UNCHANGED session
    /\ UNCHANGED <<py3, store, indexes, registered, tokenVars>>

\* home behind login_required.  user.py installs no user_loader; whether the
\* session's user can be loaded again is decided outside it.
home(c) ==
    /\ NoneAnswered
    /\ req[c].pc = "idle"
    /\ \E loaded \in BOOLEAN :
          req' = [req EXCEPT ![c] = [Idle EXCEPT !.pc = "done", !.op = "home",
              !.resp =
                  IF session[c] = Anonymous
                  THEN Response("redirect", "users_bp.login",
                                "Please log in to access this page.", {})
                  ELSE IF loaded
                  THEN Response("render", "index.html", None, {})
                  ELSE Response("error", "Exception", None, {})]]
    /\ UNCHANGED <<py3, store, indexes, session, registered, tokenVars>>

\* The response is delivered; the client may send its next request.
deliver(c) ==
    /\ req[c].pc = "done"
    /\ req' = [req EXCEPT ![c] = Idle]
    /\ UNCHANGED <<py3, store, indexes, session, registered, tokenVars>>

Next ==
    \E c \in Clients :
        \/ register_validate(c)
        \/ register_ensure_index(c)
        \/ register_insert(c)
        \/ login(c)
        \/ home(c)
        \/ deliver(c)

Spec == Init /\ [][Next]_vars

----------------------------------------------------------------------------
(* The confirmation tokens on their own *)

\* generate_confirmation_token(email), as register calls it.
issue ==
    /\ ~conf.called
    /\ Cardinality(issued) < MaxIssued
    /\ \E e \in FormEmails :
          /\ registration_errors(e, "secret1", "secret1") = {}
          /\ issued' = issued \cup
                 {generate_confirmation_token(secret_key, e, now)}
    /\ UNCHANGED <<webVars, now, secret_key, conf>>

\* confirm_token(token, expiration) on whatever the link carries.
confirm ==
    /\ ~conf.called
    /\ \E t \in issued \cup UNION {Tampered(i) : i \in issued} \cup {Malformed},
          expiration \in {DefaultExpiration, TickSeconds} :
          conf' = [called |-> TRUE, token |-> t, secret |-> secret_key,
                   expiration |-> expiration, at |-> now,
                   result |-> confirm_token(secret_key, t, expiration, now)]
    /\ UNCHANGED <<webVars, now, secret_key, issued>>

\* Time passes.
tick ==
    /\ ~conf.called
    /\ now < MaxTicks * TickSeconds
    /\ now' = now + TickSeconds
    /\ UNCHANGED <<webVars, secret_key, issued, conf>>

\* The deployment's SECRET_KEY is replaced.
rotate_secret ==
    /\ ~conf.called
    /\ \E k \in Secrets \ {secret_key} : secret_key' = k
    /\ UNCHANGED <<webVars, now, issued, conf>>

\* The caller has read what confirm_token returned.
returned ==
    /\ conf.called
    /\ conf' = NoConfirm
    /\ UNCHANGED <<webVars, now, secret_key, issued>>

NextToken == issue \/ confirm \/ tick \/ rotate_secret \/ returned

InitToken == Init /\ py3

SpecToken == InitToken /\ [][NextToken]_vars

----------------------------------------------------------------------------
(* Properties *)

\* A register request that was answered after its form and its lookup passed
\* and user.submit() ran.
Submitted(c) ==
    /\ req[c].pc = "done" /\ req[c].op = "register"
    /\ req[c].valid /\ req[c].outcome # None

\* A login request that was answered after its form passed and the lookup
\* was served by the store.
LoggedIn(c) ==
    /\ req[c].pc = "done" /\ req[c].op = "login"
    /\ req[c].valid /\ req[c].lookup = "ok"

RegisterSuccess ==
    Response("redirect", "main_bp.home",
             "A confirmation email has been sent via email.", {})

LoginSuccess == Response("redirect", "main_bp.home", "Welcome.", {})

InvalidCredentials ==
    Response("render", "login.html", "Invalid email and/or password.", {})

\* C1: in every reachable state the collection holds at most one document
\* per email, so the assertion of select_by_email never fails; this holds
\* also when two registrations of one email both pass the lookup.
C1_OneAccountPerEmail ==
    \A e \in FormEmails :
        /\ CountEmail(store, e) <= 1
        /\ select_by_email(store, e, "ok").raised # "AssertionError"

\* Two registrations of one email both passed the lookup; this one lost.
C1_Witness ==
    \E c \in Clients :
        /\ Submitted(c) /\ req[c].found = 0 /\ req[c].had
        /\ req[c].outcome = "ok"
        /\ CountEmail(store, req[c].email) = 1

\* C2: a registration for an email that already has an account, whether the
\* account was there at the lookup or came in before the insert, ends in
\* 'Email already registered' on the form and never in the success redirect.
C2_DuplicateEmailRejected ==
    \A c \in Clients :
        (/\ req[c].pc = "done" /\ req[c].op = "register" /\ req[c].valid
         /\ (req[c].found > 0 \/ req[c].had))
        => /\ req[c].resp.kind = "render"
           /\ "Email already registered" \in req[c].resp.errors
           /\ req[c].resp # RegisterSuccess

\* C3: a login with an unknown email and a login with a stored email and a
\* password that does not verify are answered alike: the login form with the
\* flash 'Invalid email and/or password.'.
C3_SameInvalidCredentials ==
    \A c \in Clients :
        (LoggedIn(c) /\ (req[c].found = 0 \/ req[c].check = "False"))
        => req[c].resp = InvalidCredentials

\* C4, the transitions: a session changes only by a login whose email has a
\* stored account and whose password is the one that account was stored
\* with, and it is then bound to that email.
C4_SessionStep ==
    \A c \in Clients :
        session'[c] # session[c]
        => /\ req'[c].pc = "done" /\ req'[c].op = "login"
           /\ session'[c] = req'[c].email
           /\ CountEmail(store, req'[c].email) = 1
           /\ <<req'[c].email, req'[c].password>> \in registered

\* C4, the gate: the home page is rendered only for an authenticated session.
C4_HomeGated ==
    \A c \in Clients :
        (/\ req[c].pc = "done" /\ req[c].op = "home"
         /\ req[c].resp.kind = "render")
        => session[c] # Anonymous

\* C4: sessions become Authenticated only through a login that verifies,
\* bound to the login's email, and home is served only to such a session.
C4_AuthenticatedOnlyByLogin == [][C4_SessionStep]_vars /\ []C4_HomeGated

\* A session that logged in is served the home page.
C4_Witness ==
    \E c \in Clients :
        /\ req[c].pc = "done" /\ req[c].op = "home"
        /\ req[c].resp.target = "index.html"
        /\ session[c] \in FormEmails

C6_HashVerifyRoundTrip ==
    \A c \in Clients :
        LoggedIn(c)
        => \A pair \in registered :
               pair[1] = req[c].email
               => ((req[c].resp = LoginSuccess) <=> (req[c].password = pair[2]))

\* C7: when the store serves the insert, submit returns success and count 1
\* for an email with no document, and for an email that has one it returns,
\* without raising, no success, count 0 and the duplicate-key code, the
\* collection left as it was.
C7_SubmitResult ==
    \A c \in Clients :
        (Submitted(c) /\ req[c].outcome = "ok")
        => IF req[c].had
           THEN /\ ~req[c].sub.success /\ req[c].sub.count = 0
                /\ req[c].sub.code = <<EXISTING_EMAIL_CODE_ERR>>
                /\ req[c].sub.raised = None
                /\ ~req[c].inserted
           ELSE /\ req[c].sub.success /\ req[c].sub.count = 1
                /\ req[c].inserted

\* submit was turned down for a duplicate email.
C7_Witness ==
    \E c \in Clients :
        /\ Submitted(c) /\ req[c].outcome = "ok" /\ req[c].had
        /\ req[c].sub.code = <<EXISTING_EMAIL_CODE_ERR>>

\* C8, one call: a lookup that the store serves returns success, a count of
\* 0 for an email with no document and of 1, with a user object of that
\* email, for an email submit stored; never more; the collection is left alone.
C8_SelectStep ==
    \A c \in Clients :
        (/\ req[c].pc = "idle" /\ req'[c].pc # "idle"
         /\ req'[c].lookup = "ok")
        => LET r == select_by_email(store, req'[c].email, "ok")
           IN  /\ r.raised = None /\ r.success
               /\ r.count = (IF \E pair \in registered :
                                    pair[1] = req'[c].email THEN 1 ELSE 0)
               /\ r.count <= 1
               /\ r.count = 1 => r.documents.email = req'[c].email
               /\ req'[c].valid => req'[c].found = r.count
               /\ store' = store

\* C8: every select_by_email call answers as C8_SelectStep says.
C8_SelectByEmail == [][C8_SelectStep]_vars

\* A lookup found the account of a stored email.
C8_Witness ==
    \E c \in Clients : LoggedIn(c) /\ req[c].found = 1

\* C10: when submit returns no success for a reason other than a duplicate
\* key, register does not end in success: no token, no success flash, no
\* redirect to home.
C10_StoreErrorSurfaces ==
    \A c \in Clients :
        (/\ Submitted(c) /\ ~req[c].sub.success
         /\ req[c].sub.code # <<EXISTING_EMAIL_CODE_ERR>>)
        => /\ req[c].resp # RegisterSuccess
           /\ req[c].token = {}

\* The token was made by generate_confirmation_token under the secret in
\* force at the call, and is no older than the expiration asked for.
Genuine(cf) ==
    /\ cf.token \in issued
    /\ cf.token = generate_confirmation_token(cf.secret, cf.token.payload,
                                              cf.token.timestamp)
    /\ cf.at - cf.token.timestamp <= cf.expiration

\* The token was made under the secret in force but is older than that.
Outdated(cf) ==
    /\ cf.token \in issued
    /\ cf.token = generate_confirmation_token(cf.secret, cf.token.payload,
                                              cf.token.timestamp)
    /\ cf.at - cf.token.timestamp > cf.expiration

\* C9 as amended: confirm_token returns the email exactly for a token that
\* generate_confirmation_token made for it under the current secret and salt
\* at most expiration seconds ago; for every other token, expired, tampered
\* or malformed alike, it returns False, and it never raises.
C9_ConfirmToken ==
    conf.called
    => IF Genuine(conf)
       THEN conf.result = conf.token.payload
       ELSE conf.result = PyFalse

\* A token is confirmed in the last second of its life.
C9_Witness ==
    /\ conf.called /\ Genuine(conf)
    /\ conf.at - conf.token.timestamp = conf.expiration
    /\ conf.result \in FormEmails

\* C9 as stated: the same, with Expired returned for an expired token and
\* Invalid for a tampered or malformed one.
C9_ExpiredOrInvalid ==
    conf.called
    => IF Genuine(conf)
       THEN conf.result = conf.token.payload
       ELSE IF Outdated(conf)
       THEN conf.result = "Expired"
       ELSE conf.result = "Invalid"

====
